---------------------------- MODULE Spec2Model ----------------------------
(***************************************************************************)
(* A model of gantry's dependency resolver (tarjan.go: NewTarjan,          *)
(* strongConnect, Parse), of its line-buffering log sinks (PrefixedLog)    *)
(* and of its container engine selector (getContainerExecutable).          *)
(*                                                                         *)
(* Go's `range` over a map visits the keys in an unspecified order, so     *)
(* every `range` of the resolver is a nondeterministic choice of the next  *)
(* key among those not yet visited.                                        *)
(*                                                                         *)
(* A step is modelled by its name and its Dependencies(), which return the *)
(* set of names the map holds for it; Step.Name() is the step's key.       *)
(* tarjanData.nodes is made with capacity len(steps) and gets one node per *)
(* step, so the pointers strongConnect keeps into it stay valid: a node is *)
(* its position in `nodes`.                                                *)
(***************************************************************************)
EXTENDS Integers, Sequences, FiniteSets, TLC

\* ------------------------------------------------------------ bounds ----
NumSteps == 3
MaxEdges == 3
NumSinks == 2
MaxInput == 4
MaxGroups == 2
MaxOut == 3
MaxCmd == 3
MaxItems == 2
MaxArgs == 3
MaxFiles == 2
MaxCalls == 3

StepNames == <<"a", "b", "c", "d", "e", "f">>
\* The universe of step names; a mapping's keys are a subset of it, and a
\* dependency on a name outside the keys is an unknown dependency.
Names == {StepNames[i] : i \in 1..NumSteps}

VARIABLES
  graph,     \* tarjan.graph: step name -> its Dependencies() (a set of names)
  nodes,     \* tarjanData.nodes: sequence of [lowlink, stacked]
  stack,     \* tarjanData.stack
  index,     \* tarjanData.index: step name -> discovery index
  output,    \* tarjan.output: sequence of components (sequences of names)
  frames,    \* the active strongConnect calls, innermost last
  phase,     \* "tarjan" (in NewTarjan), "resolved" (NewTarjan returned), "done"; "idle": no resolution
  outcome,   \* what the resolution returned
  prev,      \* what the previous resolution of the same mapping returned
  typ,       \* PrefixedLog.typ of each sink
  buf,       \* PrefixedLog.buf of each sink: the unread bytes
  lpc,       \* where each sink is: "idle", or "output" (inside Write's Output call)
  pending,   \* the Write calls a sink's Fprintf has issued on its stream and not yet made
  target,    \* the bytes that reached os.Stdout and os.Stderr, each with its writer
  written,   \* all the bytes each sink was given by Write, in order
  env,       \* what the host answers: wharfer --version, user.Current, GroupIds, LookupGroupId
  executable, \* what getContainerExecutable returned ("" before the call)
  rin,       \* a runner operation's step and what the host answers to its commands
  issued,    \* the commands the operation has run (SetCommand, then Output or Exec)
  ret,       \* what the operation returned ("pending" before it returns)
  subs,      \* PipelineEnvironment.Substitutions: key -> pointer to a string, or nil
  tcall,     \* the last call of a template function and what it returned
  tempFiles, \* PipelineEnvironment.tempFiles
  tempPaths, \* PipelineEnvironment.tempPaths: prefix -> path
  created,   \* the directories ioutil.TempDir has created, in order
  calls,     \* the TempDir calls made on this environment and what each returned
  cleanup    \* what CleanUp tried to remove and what it returned

tvars == <<graph, nodes, stack, index, output, frames, phase, outcome, prev>>
lvars == <<typ, buf, lpc, pending, target, written>>
evars == <<env, executable>>
rvars == <<rin, issued, ret>>
pvars == <<subs, tcall>>
dvars == <<tempFiles, tempPaths, created, calls, cleanup>>
vars == <<tvars, lvars, evars, rvars, pvars, dvars>>

\* ------------------------------------------------------------ helpers ---
Min(x, y) == IF x < y THEN x ELSE y

Range(s) == {s[i] : i \in 1..Len(s)}

RECURSIVE SumCard(_, _)
SumCard(g, K) ==
  IF K = {} THEN 0
  ELSE LET k == CHOOSE x \in K : TRUE
       IN Cardinality(g[k]) + SumCard(g, K \ {k})

\* ------------------------------------------------------ resolver state --
Pending == [kind |-> "pending", where |-> "", step |-> "", dep |-> "",
            names |-> <<>>, pipelines |-> <<>>]

UnknownDependencySwapped(w, v) ==
  [kind |-> "unknown", where |-> "NewTarjan", step |-> w, dep |-> v,
   names |-> <<>>, pipelines |-> <<>>]

\* tarjan.go:38  fmt.Errorf("Unknown dependency '%s' for step '%s'", w, v); NewTarjan returns nil, err
UnknownDependency(w, v) ==
  [kind |-> "unknown", where |-> "NewTarjan", step |-> v, dep |-> w,
   names |-> <<>>, pipelines |-> <<>>]

\* tarjan.go:101-105  the cyclic component error: Parse returns nil, err
CyclicComponent(steps) ==
  [kind |-> "cyclic", where |-> "Parse", step |-> "", dep |-> "",
   names |-> steps, pipelines |-> <<>>]

\* tarjan.go:121  return &result, nil
Pipelines(result) ==
  [kind |-> "ok", where |-> "Parse", step |-> "", dep |-> "",
   names |-> <<>>, pipelines |-> result]

\* tarjan.go:77-81  the fresh tarjanData of one NewTarjan call
Fresh ==
  /\ nodes = <<>>
  /\ stack = <<>>
  /\ index = <<>>
  /\ output = <<>>
  /\ frames = <<>>
  /\ phase = "tarjan"
  /\ outcome = Pending

TarjanInit ==
  /\ graph \in UNION {[K -> SUBSET Names] : K \in SUBSET Names}
  /\ SumCard(graph, DOMAIN graph) <= MaxEdges
  /\ Fresh
  /\ prev = Pending

\* tarjan.go:26-32  strongConnect's prologue for step v, called with the
\* strongConnect calls `callers` active
Enter(v, callers) ==
  LET idx == Len(nodes) IN
  /\ index' = (v :> idx) @@ index
  /\ stack' = Append(stack, v)
  /\ nodes' = Append(nodes, [lowlink |-> idx, stacked |-> TRUE])
  /\ frames' = Append(callers, [v |-> v, idx |-> idx, todo |-> graph[v]])

\* tarjan.go:82-89  one iteration of NewTarjan's range over the step map
NewTarjanVisit ==
  /\ phase = "tarjan"
  /\ frames = <<>>
  /\ \E v \in DOMAIN graph :
       /\ v \notin DOMAIN index
       /\ Enter(v, <<>>)
  /\ UNCHANGED <<graph, output, phase, outcome, prev>>
  /\ UNCHANGED <<lvars, evars, rvars, pvars, dvars>>

\* tarjan.go:90  the range is exhausted: return &t.tarjan, nil
NewTarjanReturn ==
  /\ phase = "tarjan"
  /\ frames = <<>>
  /\ DOMAIN graph \subseteq DOMAIN index
  /\ phase' = "resolved"
  /\ UNCHANGED <<graph, nodes, stack, index, output, frames, outcome, prev>>
  /\ UNCHANGED <<lvars, evars, rvars, pvars, dvars>>

\* tarjan.go:37  _, ok := td.graph[w]
IsStep(w) == w \in DOMAIN graph

FoldDropped(ns, idx, low) == ns

\* tarjan.go:46-48 and 50-52  fold a low-link into the node at position idx
Fold(ns, idx, low) ==
  [ns EXCEPT ![idx + 1].lowlink = Min(ns[idx + 1].lowlink, low)]

\* tarjan.go:36-54  one iteration of strongConnect's range over the dependencies
Dependency ==
  /\ phase = "tarjan"
  /\ frames # <<>>
  /\ LET top == frames[Len(frames)] IN
     \E w \in top.todo :
       LET rest == [frames EXCEPT ![Len(frames)].todo = top.todo \ {w}] IN
       IF ~IsStep(w)
       THEN /\ outcome' = UnknownDependency(w, top.v)
            /\ phase' = "done"
            /\ frames' = <<>>
            /\ UNCHANGED <<nodes, stack, index>>
       ELSE IF w \notin DOMAIN index
       THEN /\ Enter(w, rest)
            /\ UNCHANGED <<phase, outcome>>
       ELSE /\ nodes' = IF nodes[index[w] + 1].stacked
                        THEN Fold(nodes, top.idx, index[w])
                        ELSE nodes
            /\ frames' = rest
            /\ UNCHANGED <<stack, index, phase, outcome>>
  /\ UNCHANGED <<graph, output, prev>>
  /\ UNCHANGED <<lvars, evars, rvars, pvars, dvars>>

IsRootAlways(node, idx) == TRUE

\* tarjan.go:56  node.lowlink == index
IsRoot(node, idx) == node.lowlink = idx

\* tarjan.go:58-68  the pop loop, from position i (0-based) of the stack down
\* to the step whose discovery index is idx
RECURSIVE PopLoop(_, _, _, _)
PopLoop(i, vertices, ns, idx) ==
  LET w == stack[i + 1]
      stackIndex == index[w]
      ns2 == [ns EXCEPT ![stackIndex + 1].stacked = FALSE]
      vs2 == Append(vertices, w)
  IN IF stackIndex = idx
     THEN [i |-> i, vertices |-> vs2, nodes |-> ns2]
     ELSE PopLoop(i - 1, vs2, ns2, idx)

\* tarjan.go:56-72  strongConnect's epilogue, and the caller's fold of the
\* returned node's low-link (tarjan.go:42-48)
Return ==
  /\ phase = "tarjan"
  /\ frames # <<>>
  /\ LET top == frames[Len(frames)]
         node == nodes[top.idx + 1]
         popped == PopLoop(Len(stack) - 1, <<>>, nodes, top.idx)
         root == IsRoot(node, top.idx)
         ns == IF root THEN popped.nodes ELSE nodes
         callers == SubSeq(frames, 1, Len(frames) - 1)
     IN
     /\ top.todo = {}
     /\ stack' = IF root THEN SubSeq(stack, 1, popped.i) ELSE stack
     /\ output' = IF root THEN Append(output, popped.vertices) ELSE output
     /\ frames' = callers
     /\ nodes' = IF callers = <<>>
                 THEN ns
                 ELSE Fold(ns, callers[Len(callers)].idx, ns[top.idx + 1].lowlink)
  /\ UNCHANGED <<graph, index, phase, outcome, prev>>
  /\ UNCHANGED <<lvars, evars, rvars, pvars, dvars>>

RequirementsOverwritten(requirements, step) ==
  graph[step] \ {step}

\* tarjan.go:108-112  add the step's dependencies, then delete the step itself
Requirements(requirements, step) ==
  (requirements \cup graph[step]) \ {step}

PlaceOverwritten(result, resultIndex, step) ==
  LET r == IF Len(result) - 1 < resultIndex THEN Append(result, <<>>) ELSE result
  IN [r EXCEPT ![resultIndex + 1] = <<step>>]

PlaceAppended(result, resultIndex, step) ==
  LET r == IF Len(result) - 1 < resultIndex THEN Append(result, <<>>) ELSE result
  IN [r EXCEPT ![resultIndex + 1] = Append(@, step)]

\* tarjan.go:113-116  prepend the step to the group at resultIndex
Place(result, resultIndex, step) ==
  LET r == IF Len(result) - 1 < resultIndex THEN Append(result, <<>>) ELSE result
  IN [r EXCEPT ![resultIndex + 1] = <<step>> \o @]

\* tarjan.go:117-119
NextIndex(resultIndex, requirements) ==
  IF requirements = {} THEN resultIndex + 1 ELSE resultIndex

\* tarjan.go:98-121  Parse's walk of t.output from position i (0-based) down
RECURSIVE ParseLoop(_, _, _, _)
ParseLoop(i, result, resultIndex, requirements) ==
  IF i < 0 THEN Pipelines(result)
  ELSE LET steps == output[i + 1] IN
       IF Len(steps) > 1 THEN CyclicComponent(steps)
       ELSE LET step == steps[1]
                req == Requirements(requirements, step)
            IN ParseLoop(i - 1, Place(result, resultIndex, step),
                         NextIndex(resultIndex, req), req)

\* tarjan.go:93-122  (t *tarjan) Parse
Parse ==
  /\ phase = "resolved"
  /\ outcome' = ParseLoop(Len(output) - 1, <<>>, 0, {})
  /\ phase' = "done"
  /\ UNCHANGED <<graph, nodes, stack, index, output, frames, prev>>
  /\ UNCHANGED <<lvars, evars, rvars, pvars, dvars>>

\* The caller resolves the same, unmodified mapping once more: a new
\* NewTarjan call starts from a fresh tarjanData (tarjan.go:77-81).
ResolveAgain ==
  /\ phase = "done"
  /\ prev' = outcome
  /\ nodes' = <<>>
  /\ stack' = <<>>
  /\ index' = <<>>
  /\ output' = <<>>
  /\ frames' = <<>>
  /\ phase' = "tarjan"
  /\ outcome' = Pending
  /\ UNCHANGED graph
  /\ UNCHANGED <<lvars, evars, rvars, pvars, dvars>>

\* ------------------------------------------------- resolver: the claims --
Known(v) == graph[v] \cap DOMAIN graph

RECURSIVE Closure(_)
Closure(S) ==
  LET T == S \cup UNION {Known(x) : x \in S}
  IN IF T = S THEN S ELSE Closure(T)

\* the steps reachable from v through one or more dependency edges
ReachableFrom(v) == Closure(Known(v))

HasCycle == \E v \in DOMAIN graph : v \in ReachableFrom(v)

HasUnknown == \E v \in DOMAIN graph : ~(graph[v] \subseteq DOMAIN graph)

Adjacent(x) == Known(x) \cup {y \in DOMAIN graph : x \in graph[y]}

RECURSIVE WeakClosure(_)
WeakClosure(S) ==
  LET T == S \cup UNION {Adjacent(x) : x \in S}
  IN IF T = S THEN S ELSE WeakClosure(T)

\* linked by a chain of dependency edges, whatever their direction
Linked(u, v) == v \in WeakClosure({u})

Groups == outcome.pipelines

SameGroup(u, v) ==
  \E i \in 1..Len(Groups) : u \in Range(Groups[i]) /\ v \in Range(Groups[i])

Resolved == phase = "done" /\ outcome.kind = "ok"

\* C1: for an acyclic mapping whose dependencies all exist, whatever the
\* iteration orders, Parse returns Pipelines in which every dependency of a
\* step is placed before it in its own group or in an earlier group, and in
\* no later group.
C1_OutputInvariant ==
  (phase = "done" /\ ~HasCycle /\ ~HasUnknown) =>
    /\ outcome.kind = "ok"
    /\ \A i \in 1..Len(Groups) : \A k \in 1..Len(Groups[i]) :
         \A d \in graph[Groups[i][k]] :
           /\ \E j \in 1..i : \E l \in 1..Len(Groups[j]) :
                Groups[j][l] = d /\ (j = i => l < k)
           /\ \A j \in (i + 1)..Len(Groups) : d \notin Range(Groups[j])
           /\ \A l \in k..Len(Groups[i]) : Groups[i][l] # d

C1_Witness ==
  /\ Resolved /\ ~HasCycle
  /\ Len(Groups) >= 2
  /\ \E i \in 1..Len(Groups) : \E k \in 1..Len(Groups[i]) :
       graph[Groups[i][k]] # {}

\* C2: a mapping with a dependency cycle (a self-dependency included) and no
\* unknown dependency is refused: resolution ends with a cyclic-component
\* error naming every step of a cycle, and returns no pipeline.
C2_CycleRefused ==
  (phase = "done" /\ HasCycle /\ ~HasUnknown) =>
    /\ outcome.kind = "cyclic"
    /\ outcome.pipelines = <<>>
    /\ \E v \in DOMAIN graph :
         /\ v \in ReachableFrom(v)
         /\ Range(outcome.names) =
              {v} \cup {w \in ReachableFrom(v) : v \in ReachableFrom(w)}

\* C3: a mapping with a dependency on a name that is no key is refused in
\* NewTarjan (Parse is never reached) with an unknown-dependency error that
\* names a step and a name it depends on that is no key, also when the
\* mapping has a cycle; no cycle error, no pipeline.
C3_UnknownDependency ==
  HasUnknown =>
    /\ phase # "resolved"
    /\ phase = "done" =>
         /\ outcome.kind = "unknown"
         /\ outcome.where = "NewTarjan"
         /\ outcome.step \in DOMAIN graph
         /\ outcome.dep \notin DOMAIN graph
         /\ outcome.dep \in graph[outcome.step]
         /\ outcome.pipelines = <<>>

C3_Witness ==
  /\ phase = "done" /\ outcome.kind = "unknown"
  /\ HasCycle
  /\ Len(output) >= 1

\* C4: for an acyclic mapping, two steps that no chain of dependency edges
\* links are placed in different groups.
C4_UnlinkedApart ==
  (Resolved /\ ~HasCycle) =>
    \A u, v \in DOMAIN graph : (u # v /\ ~Linked(u, v)) => ~SameGroup(u, v)

\* C5: for an acyclic mapping, two steps linked by a chain of dependency
\* edges (in any direction) are placed in the same group; in particular a
\* step and each of its dependencies are.
C5_LinkedTogether ==
  (phase = "done" /\ ~HasCycle /\ ~HasUnknown) =>
    /\ outcome.kind = "ok"
    /\ \A u, v \in DOMAIN graph : Linked(u, v) => SameGroup(u, v)

C5_Witness ==
  /\ Resolved /\ ~HasCycle
  /\ \E u, v \in DOMAIN graph :
       /\ u # v /\ Linked(u, v)
       /\ u \notin ReachableFrom(v) /\ v \notin ReachableFrom(u)
       /\ SameGroup(u, v)

\* C6: resolving the same mapping again returns the same Pipelines: the same
\* groups, in the same order, with the same order of steps inside.
C6_SameAgain ==
  (phase = "done" /\ prev.kind = "ok") =>
    (outcome.kind = "ok" /\ outcome.pipelines = prev.pipelines)

\* C7: NewTarjan appends a component to the output only after every
\* component reachable from it: at every moment, each step reachable from a
\* recorded step is recorded in the same component or in an earlier one.
C7_FinalizedAfterReachable ==
  ~HasUnknown =>
    \A i \in 1..Len(output) : \A v \in Range(output[i]) :
      \A w \in ReachableFrom(v) :
        \E j \in 1..i : w \in Range(output[j])

C7_Witness ==
  /\ phase = "resolved" /\ ~HasUnknown
  /\ \E i \in 1..Len(output) : \E j \in 1..(i - 1) :
       \E v \in Range(output[i]) : \E w \in Range(output[j]) :
         /\ w \in graph[v]
         /\ Len(output[j]) >= 2

\* C16: when NewTarjan returns, the recorded components are the strongly
\* connected components of the dependency graph: every step is in exactly
\* one component and once in it, two distinct steps share a component
\* exactly when each is reachable from the other, and in every component the
\* root (the step whose low-link is its own discovery index) comes last.
C16_StronglyConnectedComponents ==
  phase = "resolved" =>
    /\ \A v \in DOMAIN graph :
         Cardinality({<<i, k>> \in (1..Len(output)) \X (1..NumSteps) :
                        k <= Len(output[i]) /\ output[i][k] = v}) = 1
    /\ \A i \in 1..Len(output) : Range(output[i]) \subseteq DOMAIN graph
    /\ \A u, v \in DOMAIN graph :
         u # v =>
           ((\E i \in 1..Len(output) : {u, v} \subseteq Range(output[i]))
              <=> (u \in ReachableFrom(v) /\ v \in ReachableFrom(u)))
    /\ \A i \in 1..Len(output) : \A k \in 1..Len(output[i]) :
         LET v == output[i][k] IN
         (nodes[index[v] + 1].lowlink = index[v]) <=> (k = Len(output[i]))

C16_Witness ==
  /\ phase = "resolved"
  /\ Len(output) >= 2
  /\ \E i \in 1..Len(output) : Len(output[i]) >= 2

\* C17: whenever resolution succeeds the returned Pipelines partition the
\* mapping: every step of the mapping is in exactly one group and once in
\* it, no other name appears, and no group is empty.
C17_Partition ==
  Resolved =>
    /\ \A v \in DOMAIN graph :
         Cardinality({<<i, k>> \in (1..Len(Groups)) \X (1..NumSteps) :
                        k <= Len(Groups[i]) /\ Groups[i][k] = v}) = 1
    /\ \A i \in 1..Len(Groups) :
         /\ Groups[i] # <<>>
         /\ Len(Groups[i]) <= NumSteps
         /\ Range(Groups[i]) \subseteq DOMAIN graph

C17_Witness ==
  /\ Resolved
  /\ Len(Groups) >= 2
  /\ \E i \in 1..Len(Groups) : Len(Groups[i]) >= 2

TarjanNext ==
  \/ NewTarjanVisit
  \/ Dependency
  \/ Return
  \/ NewTarjanReturn
  \/ Parse
  \/ ResolveAgain


\* ---------------------------------------------------------- log sinks ---
\* The sinks of the commands running concurrently (LocalRunner.Exec makes a
\* "stdout" and a "stderr" sink per command); every sink of type t writes to
\* the one process stream t.
Sinks == 1..NumSinks

Streams == {"stdout", "stderr"}

Bytes == {"x", "\n"}

\* part_000:121-127  NewPrefixedLog(prefix, typ): the prefix the sink is given
PrefixOf(s) == IF s % 2 = 1 THEN "p" ELSE "q"

LogInit ==
  /\ typ \in [Sinks -> Streams]
  /\ buf = [s \in Sinks |-> <<>>]
  /\ lpc = [s \in Sinks |-> "idle"]
  /\ pending = [s \in Sinks |-> <<>>]
  /\ target = [t \in Streams |-> <<>>]
  /\ written = [s \in Sinks |-> <<>>]

\* the position of the first newline of b, 0 when it has none
RECURSIVE IndexByte(_, _)
IndexByte(b, i) ==
  IF i > Len(b) THEN 0
  ELSE IF b[i] = "\n" THEN i
  ELSE IndexByte(b, i + 1)

\* part_000:141  l.buf.ReadString('\n') of bytes.Buffer: the bytes up to and
\* including the first newline; without a newline, ALL the unread bytes
\* together with io.EOF. Either way the returned bytes are consumed.
ReadString(b) ==
  LET i == IndexByte(b, 1) IN
  IF i = 0
  THEN [line |-> b, err |-> "EOF", rest |-> <<>>]
  ELSE [line |-> SubSeq(b, 1, i), err |-> "nil", rest |-> SubSeq(b, i + 1, Len(b))]

\* part_000:139  const format = "\u001b[1m%s\u001b[0m %s\u001b[0m"
Format(prefix, line) ==
  <<"ESC[1m", prefix, "ESC[0m", " ">> \o line \o <<"ESC[0m">>

FprintfInTwoWrites(prefix, line) ==
  << <<"ESC[1m", prefix, "ESC[0m", " ">>, line \o <<"ESC[0m">> >>

\* part_000:149,152  fmt.Fprintf(os.Stdout|os.Stderr, format, l.prefix, line):
\* the Write calls it makes on the stream: one, with the whole record
Fprintf(prefix, line) == << Format(prefix, line) >>

RECURSIVE SumLen(_, _)
SumLen(f, S) ==
  IF S = {} THEN 0
  ELSE LET x == CHOOSE y \in S : TRUE IN Len(f[x]) + SumLen(f, S \ {x})

\* the number of bytes given to the sinks so far
TotalWritten == SumLen(written, Sinks)

\* part_000:129-134  PrefixedLog.Write(p) up to its call of Output
\* (PrefixedWriter.Write, part_000:23-30, is the same code)
LogWrite ==
  /\ \E s \in Sinks : \E n \in 1..(MaxInput - TotalWritten) : \E p \in [1..n -> Bytes] :
       /\ lpc[s] = "idle"
       /\ buf' = [buf EXCEPT ![s] = @ \o p]
       /\ written' = [written EXCEPT ![s] = @ \o p]
       /\ lpc' = [lpc EXCEPT ![s] = "output"]
  /\ UNCHANGED <<typ, pending, target>>
  /\ UNCHANGED <<tvars, evars, rvars, pvars, dvars>>

\* part_000:140-154  one iteration of PrefixedLog.Output's loop
\* (PrefixedWriter.Output, part_000:32-45, is the same code)
LogOutput ==
  /\ \E s \in Sinks :
       LET r == ReadString(buf[s]) IN
       /\ lpc[s] = "output"
       /\ pending[s] = <<>>
       /\ buf' = [buf EXCEPT ![s] = r.rest]
       /\ IF r.err = "EOF"
          THEN /\ lpc' = [lpc EXCEPT ![s] = "idle"]
               /\ UNCHANGED pending
          ELSE /\ pending' = [pending EXCEPT ![s] = Fprintf(PrefixOf(s), r.line)]
               /\ UNCHANGED lpc
  /\ UNCHANGED <<typ, target, written>>
  /\ UNCHANGED <<tvars, evars, rvars, pvars, dvars>>

\* One Write call on os.Stdout or os.Stderr: the file's write lock makes the
\* bytes of one call reach the stream together.
StreamWrite ==
  /\ \E s \in Sinks :
       /\ pending[s] # <<>>
       /\ target' = [target EXCEPT ![typ[s]] =
            @ \o [i \in 1..Len(Head(pending[s])) |->
                    [src |-> s, ch |-> Head(pending[s])[i]]]]
       /\ pending' = [pending EXCEPT ![s] = Tail(@)]
  /\ UNCHANGED <<typ, buf, lpc, written>>
  /\ UNCHANGED <<tvars, evars, rvars, pvars, dvars>>

LogNext ==
  \/ LogWrite
  \/ LogOutput
  \/ StreamWrite

\* ------------------------------------------------- log sinks: the claims --
\* the bytes of lines that sink s has put on its stream, in order
EmittedBytes(s) ==
  LET own == SelectSeq(target[typ[s]], LAMBDA e : e.src = s /\ e.ch \in Bytes)
  IN [i \in 1..Len(own) |-> own[i].ch]

\* the records of sink s on its stream: one "ESC[1m" opens each
EmittedRecords(s) ==
  Len(SelectSeq(target[typ[s]], LAMBDA e : e.src = s /\ e.ch = "ESC[1m"))

Newlines(b) == Len(SelectSeq(b, LAMBDA c : c = "\n"))

\* C8: whenever Write has returned, the sink has emitted one record per
\* newline of all it was given so far, the records carry all the bytes up to
\* the last newline, and the bytes after the last newline are still in the
\* buffer: emitted bytes followed by the buffer are the whole input.
C8_WholeLines ==
  \A s \in Sinks :
    lpc[s] = "idle" =>
      /\ EmittedRecords(s) = Newlines(written[s])
      /\ Newlines(buf[s]) = 0
      /\ EmittedBytes(s) \o buf[s] = written[s]

\* the stream t is a sequence of whole records, each of one sink
RECURSIVE WholeRecords(_)
WholeRecords(t) ==
  IF t = <<>> THEN TRUE
  ELSE LET chars == [i \in 1..Len(t) |-> t[i].ch]
           nl == IndexByte(chars, 1)
       IN /\ nl >= 5
          /\ nl + 1 <= Len(t)
          /\ \A i \in 1..(nl + 1) : t[i].src = t[1].src
          /\ SubSeq(chars, 1, nl + 1) =
               Format(PrefixOf(t[1].src), SubSeq(chars, 5, nl))
          /\ WholeRecords(SubSeq(t, nl + 2, Len(t)))

\* C9: whatever the interleaving of the sinks writing to one stream, once
\* the issued writes are made the stream is a sequence of whole
\* "<prefix> <line>" records, each made of the bytes of one sink only.
C9_RecordsContiguous ==
  (\A s \in Sinks : pending[s] = <<>>) =>
    \A t \in Streams : WholeRecords(target[t])

C9_Witness ==
  /\ \A s \in Sinks : pending[s] = <<>>
  /\ \E t \in Streams : \E i, j, k \in 1..Len(target[t]) :
       /\ i < j /\ j < k
       /\ target[t][i].src = target[t][k].src
       /\ target[t][i].src # target[t][j].src
       /\ lpc[target[t][j].src] = "output"

\* ------------------------------------------- container engine selector ---
EngineInit ==
  /\ env \in [wharfer : BOOLEAN, userErr : BOOLEAN, uid : {"0", "1000"},
              gidsErr : BOOLEAN,
              groups : UNION {[1..n -> {"docker", "users", "lookup error"}] :
                              n \in 0..MaxGroups}]
  /\ executable = ""

\* part_000:73-79
isUserRoot ==
  IF env.userErr THEN FALSE ELSE env.uid = "0"

\* part_000:90-98  the loop over the group ids, from the i-th on
RECURSIVE groupLoop(_)
groupLoop(i) ==
  IF i > Len(env.groups) THEN FALSE
  ELSE IF env.groups[i] = "lookup error" THEN FALSE
  ELSE IF env.groups[i] = "docker" THEN TRUE
  ELSE groupLoop(i + 1)

\* part_000:81-100
isUserInDockerGroup ==
  IF env.userErr THEN FALSE
  ELSE IF env.gidsErr THEN FALSE
  ELSE groupLoop(1)

\* part_000:102-108
isWharferInstalled == env.wharfer

wrapperWheneverInstalled ==
  IF isWharferInstalled THEN "wharfer" ELSE "docker"

\* part_000:63-71
getContainerExecutable ==
  IF isWharferInstalled
  THEN IF isUserRoot \/ isUserInDockerGroup THEN "docker" ELSE "wharfer"
  ELSE "docker"

\* a call of getContainerExecutable
SelectEngine ==
  /\ executable = ""
  /\ executable' = getContainerExecutable
  /\ UNCHANGED env
  /\ UNCHANGED <<tvars, lvars, rvars, pvars, dvars>>

EngineNext == SelectEngine

\* ------------------------------------------ engine selector: the claims --
\* the caller is the superuser / is listed in the group "docker", as far as
\* the lookups tell: a failed lookup tells nothing
KnownRoot == ~env.userErr /\ env.uid = "0"

KnownInDockerGroup ==
  /\ ~env.userErr /\ ~env.gidsErr
  /\ \E i \in 1..Len(env.groups) :
       /\ env.groups[i] = "docker"
       /\ \A j \in 1..(i - 1) : env.groups[j] # "lookup error"

\* C10 as stated: the wrapper is returned whenever it is installed, whatever
\* the caller's privilege, and the direct engine binary exactly when the
\* wrapper is not installed.
C10_WrapperWheneverInstalled ==
  executable # "" =>
    /\ env.wharfer => executable = "wharfer"
    /\ executable = "docker" <=> ~env.wharfer

\* C10 amended: the wrapper is returned exactly when it is installed and the
\* caller is found neither to be the superuser nor to be in the group
\* "docker"; in every other case the direct engine binary is returned.
C10_WrapperForUnprivileged ==
  executable # "" =>
    /\ executable \in {"wharfer", "docker"}
    /\ executable = "wharfer" <=>
         (env.wharfer /\ ~KnownRoot /\ ~KnownInDockerGroup)

C10_Witness ==
  /\ executable = "docker"
  /\ env.wharfer
  /\ ~KnownRoot /\ KnownInDockerGroup
  /\ Len(env.groups) >= 2 /\ env.groups[1] # "docker"

\* ------------------------------------------------- container runner ---
\* What a runner operation works on. The step: detach, ports, volumes,
\* environment, command, args (strings are sequences of characters where the
\* code looks into them). The host: out and listErr are what Output() of the
\* list command returns, failing holds the numbers of the Exec calls that
\* return an error, getwdErr says that filepath.Abs cannot get the working
\* directory.
Whitespace == {" ", "\n"}

IdChars == {"1", "2", " "}

CmdChars == {"a", " ", "'"}

VolumeChoices ==
  { <<"d">>, <<"/", "d">>, <<"d", ":", "/", "c">>, <<"/", "d", ":", "/", "c", ":", "r">> }

NoStep ==
  [op |-> "none", detach |-> FALSE, ports |-> <<>>, volumes |-> <<>>,
   environment |-> <<>>, command |-> <<>>, args |-> <<>>,
   out |-> <<>>, listErr |-> FALSE, failing |-> {}, getwdErr |-> FALSE]

RunnerIdle ==
  /\ rin = NoStep
  /\ issued = <<>>
  /\ ret = [kind |-> "pending", of |-> <<>>]

RunnerInit ==
  /\ env \in {[wharfer |-> w, userErr |-> FALSE, uid |-> "1000",
               gidsErr |-> FALSE, groups |-> <<>>] : w \in BOOLEAN}
  /\ executable = ""
  /\ \/ \E op \in {"kill", "remove", "check"} : \E n \in 0..MaxOut :
          \E o \in [1..n -> IdChars] : \E le \in BOOLEAN :
            \E f \in SUBSET (1..((MaxOut + 1) \div 2)) :
              rin = [NoStep EXCEPT !.op = op, !.out = o, !.listErr = le,
                                   !.failing = IF op = "check" THEN {} ELSE f]
     \/ \E d, ge \in BOOLEAN : \E f \in SUBSET {1} :
          \E nc \in 0..MaxCmd : \E c \in [1..nc -> CmdChars] :
          \E np \in 0..MaxItems : \E nv \in 0..(MaxItems - np) :
          \E ne \in 0..(MaxItems - np - nv) : \E na \in 0..(MaxItems - np - nv - ne) :
          \E ps \in [1..np -> {"80:80", "443:443"}] :
          \E vs \in [1..nv -> VolumeChoices] :
          \E es \in [1..ne -> {"A=1", "B=2"}] :
          \E as \in [1..na -> {"x", "y"}] :
            rin = [NoStep EXCEPT !.op = "run", !.detach = d, !.getwdErr = ge,
                                 !.failing = f, !.command = c, !.ports = ps,
                                 !.volumes = vs, !.environment = es, !.args = as]
  /\ issued = <<>>
  /\ ret = [kind |-> "pending", of |-> <<>>]

\* a string the code passes on without looking into it: one symbol
Str(x) == <<x>>

\* return nil
Nil == [kind |-> "nil", of |-> <<>>]

\* the error Output() of the list command returned
ListError == [kind |-> "list error", of |-> <<>>]

\* the error Exec() of the command with arguments a returned
ExecError(a) == [kind |-> "exec error", of |-> a]

\* part_000:191-194 and 177-189  r.SetCommand(getContainerExecutable(), args), then
\* r.Exec() or r.Output(): the command run
Command(args, via) ==
  [name |-> getContainerExecutable, args |-> args, via |-> via]

\* bufio.ScanWords over b: the space-separated words of b (part_000:259-261)
RECURSIVE ScanWords(_, _, _)
ScanWords(b, word, words) ==
  IF b = <<>>
  THEN IF word = <<>> THEN words ELSE Append(words, word)
  ELSE IF Head(b) \in Whitespace
  THEN ScanWords(Tail(b), <<>>, IF word = <<>> THEN words ELSE Append(words, word))
  ELSE ScanWords(Tail(b), Append(word, Head(b)), words)

FailedNever(i) == FALSE

\* part_000:264 and 312  if err := k.Exec(); err != nil: the i-th Exec fails
Failed(i) == i \in rin.failing

\* part_000:261-267 and 309-315  the loop over the scanned IDs, from the i-th
RECURSIVE ActLoop(_, _, _, _)
ActLoop(verb, tokens, i, acc) ==
  IF i > Len(tokens) THEN [issued |-> acc, ret |-> Nil]
  ELSE LET k == Command(<<Str(verb), tokens[i]>>, "Exec") IN
       IF Failed(i)
       THEN [issued |-> Append(acc, k), ret |-> ExecError(k.args)]
       ELSE ActLoop(verb, tokens, i + 1, Append(acc, k))

\* part_000:251-273 and 299-321  list the containers, then act on each ID
ListThenAct(listArgs, verb) ==
  LET r == Command(listArgs, "Output") IN
  IF rin.listErr
  THEN [issued |-> <<r>>, ret |-> ListError]
  ELSE ActLoop(verb, ScanWords(rin.out, <<>>, <<>>), 1, <<r>>)

\* part_000:251-273  the function NewContainerKiller returns
ContainerKiller ==
  /\ rin.op = "kill"
  /\ ret.kind = "pending"
  /\ LET r == ListThenAct(<<Str("ps"), Str("-q"), Str("--filter"),
                            Str("name=ContainerName")>>, "kill")
     IN issued' = r.issued /\ ret' = r.ret
  /\ UNCHANGED rin
  /\ UNCHANGED <<tvars, lvars, evars, pvars, dvars>>

\* part_000:299-321  the function NewOldContainerRemover returns
OldContainerRemover ==
  /\ rin.op = "remove"
  /\ ret.kind = "pending"
  /\ LET r == ListThenAct(<<Str("ps"), Str("-a"), Str("-q"), Str("--filter"),
                            Str("name=ContainerName")>>, "rm")
     IN issued' = r.issued /\ ret' = r.ret
  /\ UNCHANGED rin
  /\ UNCHANGED <<tvars, lvars, evars, pvars, dvars>>

IsMissingUnlessOne(count) == count # 1

\* part_000:292  count == 0
IsMissing(count) == count = 0

\* part_000:293  fmt.Errorf("Image not found '%s'", step.ImageName())
ImageNotFound == [kind |-> "image not found", of |-> <<Str("ImageName")>>]

\* part_000:275-297  the function NewImageExistenceChecker returns
ImageExistenceChecker ==
  /\ rin.op = "check"
  /\ ret.kind = "pending"
  /\ issued' = <<Command(<<Str("images"), Str("--format"),
                           Str("{{.ID}};{{.Repository}}"), Str("ImageName")>>,
                         "Output")>>
  /\ ret' = IF rin.listErr THEN ListError
            ELSE IF IsMissing(Len(ScanWords(rin.out, <<>>, <<>>))) THEN ImageNotFound
            ELSE Nil
  /\ UNCHANGED rin
  /\ UNCHANGED <<tvars, lvars, evars, pvars, dvars>>

\* the position of the first c in b from position i on, 0 when there is none
RECURSIVE IndexOf(_, _, _)
IndexOf(b, c, i) ==
  IF i > Len(b) THEN 0
  ELSE IF b[i] = c THEN i
  ELSE IndexOf(b, c, i + 1)

\* part_000:227  strings.SplitN(volume, ":", 2)
SplitN2(volume) ==
  LET i == IndexOf(volume, ":", 1) IN
  IF i = 0 THEN <<volume>>
  ELSE <<SubSeq(volume, 1, i - 1), SubSeq(volume, i + 1, Len(volume))>>

\* the working directory of the process
Cwd == <<"/", "w">>

\* part_000:228  filepath.Abs(path): an absolute path as it is, a relative one
\* joined to the working directory, an error when that cannot be had
Abs(path) ==
  IF path # <<>> /\ Head(path) = "/" THEN [path |-> path, err |-> FALSE]
  ELSE IF rin.getwdErr THEN [path |-> <<>>, err |-> TRUE]
  ELSE [path |-> Cwd \o <<"/">> \o path, err |-> FALSE]

\* part_000:232  strings.Join(parts, ":")
Join(parts) ==
  IF Len(parts) = 1 THEN parts[1] ELSE parts[1] \o <<":">> \o parts[2]

\* part_000:224-233  the loop over step.Volumes, from the i-th on
RECURSIVE VolumeLoop(_, _)
VolumeLoop(i, args) ==
  IF i > Len(rin.volumes) THEN [args |-> args, err |-> FALSE]
  ELSE LET parts == SplitN2(rin.volumes[i])
           abs == Abs(parts[1])
       IN IF abs.err THEN [args |-> args, err |-> TRUE]
          ELSE VolumeLoop(i + 1,
                 args \o <<Str("-v"), Join([parts EXCEPT ![1] = abs.path])>>)

\* part_000:221-223 and 234-236  append the flag and each entry, in order
RECURSIVE Flagged(_, _, _)
Flagged(flag, entries, i) ==
  IF i > Len(entries) THEN <<>>
  ELSE <<Str(flag), Str(entries[i])>> \o Flagged(flag, entries, i + 1)

\* part_000:240  shlex.Split(step.Command), its error dropped: the words
\* read before the end of the input or before an unterminated quote.
\* state: "start" (between words), "word", "quote" (inside '...')
RECURSIVE shlexSplit(_, _, _, _)
shlexSplit(b, state, value, tokens) ==
  IF b = <<>>
  THEN IF state = "word" THEN Append(tokens, value) ELSE tokens
  ELSE LET c == Head(b) IN
       CASE state = "start" ->
              IF c = " " THEN shlexSplit(Tail(b), "start", <<>>, tokens)
              ELSE IF c = "'" THEN shlexSplit(Tail(b), "quote", <<>>, tokens)
              ELSE shlexSplit(Tail(b), "word", <<c>>, tokens)
         [] state = "word" ->
              IF c = " " THEN shlexSplit(Tail(b), "start", <<>>, Append(tokens, value))
              ELSE IF c = "'" THEN shlexSplit(Tail(b), "quote", value, tokens)
              ELSE shlexSplit(Tail(b), "word", Append(value, c), tokens)
         [] OTHER ->
              IF c = "'" THEN shlexSplit(Tail(b), "word", value, tokens)
              ELSE shlexSplit(Tail(b), "quote", Append(value, c), tokens)

\* part_000:241  tokens[0] of an empty slice: index out of range
Panic == [kind |-> "panic", of |-> <<>>]

\* part_000:230  return err (of filepath.Abs)
AbsError == [kind |-> "abs error", of |-> <<>>]

\* part_000:212-249  the function NewContainerRunner returns
ContainerRunner ==
  /\ rin.op = "run"
  /\ ret.kind = "pending"
  /\ LET a1 == <<Str("run"), Str("--name"), Str("ContainerName")>>
         a2 == Append(a1, IF rin.detach THEN Str("-d") ELSE Str("--rm"))
         a3 == a2 \o Flagged("-p", rin.ports, 1)
         vl == VolumeLoop(1, a3)
         a5 == vl.args \o Flagged("-e", rin.environment, 1)
         tokens == shlexSplit(rin.command, "start", <<>>, <<>>)
         a6 == IF rin.command # <<>>
               THEN a5 \o <<Str("--entrypoint"), tokens[1]>>
               ELSE a5
         callerArgs == IF rin.command # <<>>
                       THEN Tail(tokens)
                       ELSE [i \in 1..Len(rin.args) |-> Str(rin.args[i])]
         args == Append(a6, Str("ImageName")) \o callerArgs
     IN IF vl.err
        THEN issued' = <<>> /\ ret' = AbsError
        ELSE IF rin.command # <<>> /\ tokens = <<>>
        THEN issued' = <<>> /\ ret' = Panic
        ELSE /\ issued' = <<Command(args, "Exec")>>
             /\ ret' = IF Failed(1) THEN ExecError(args) ELSE Nil
  /\ UNCHANGED rin
  /\ UNCHANGED <<tvars, lvars, evars, pvars, dvars>>

RunnerNext ==
  \/ ContainerKiller
  \/ OldContainerRemover
  \/ ImageExistenceChecker
  \/ ContainerRunner

\* --------------------------------------------- container runner: claims --
Returned == ret.kind # "pending"

ListedIds == ScanWords(rin.out, <<>>, <<>>)

\* C11: Kill and Remove stale containers run the list command first; if it
\* fails nothing else is run and its error is returned; otherwise one action
\* per listed ID is run in listed order up to and including the first that
\* fails, whose error is returned, and success is returned only when every
\* listed ID was acted on successfully.
C11_ListThenAct ==
  (rin.op \in {"kill", "remove"} /\ Returned) =>
    LET verb == IF rin.op = "kill" THEN "kill" ELSE "rm"
        F == {i \in 1..Len(ListedIds) : i \in rin.failing}
        n == IF F = {} THEN Len(ListedIds)
             ELSE CHOOSE i \in F : \A j \in F : i <= j
        acts == Tail(issued)
    IN /\ issued # <<>>
       /\ issued[1].via = "Output"
       /\ IF rin.listErr
          THEN acts = <<>> /\ ret = ListError
          ELSE /\ Len(acts) = n
               /\ \A i \in 1..n :
                    acts[i] = [name |-> getContainerExecutable,
                               args |-> <<Str(verb), ListedIds[i]>>,
                               via |-> "Exec"]
               /\ ret = IF F = {} THEN Nil
                        ELSE ExecError(<<Str(verb), ListedIds[n]>>)

C11_Witness ==
  /\ rin.op = "remove" /\ Returned
  /\ ~rin.listErr
  /\ Len(ListedIds) = 2
  /\ rin.failing = {1, 2}
  /\ Len(issued) = 2
  /\ ret.kind = "exec error"

\* the arguments C12 says Run builds
Pairs(flag, entries) ==
  [i \in 1..(2 * Len(entries)) |->
     IF i % 2 = 1 THEN Str(flag) ELSE entries[i \div 2]]

ClaimedRunArgs ==
  LET tokens == shlexSplit(rin.command, "start", <<>>, <<>>)
      override == rin.command # <<>>
      strs(q) == [i \in 1..Len(q) |-> Str(q[i])]
      resolved == [i \in 1..Len(rin.volumes) |->
                     LET parts == SplitN2(rin.volumes[i])
                     IN Join([parts EXCEPT ![1] = Abs(parts[1]).path])]
  IN <<Str("run"), Str("--name"), Str("ContainerName")>>
     \o <<IF rin.detach THEN Str("-d") ELSE Str("--rm")>>
     \o Pairs("-p", strs(rin.ports))
     \o Pairs("-v", resolved)
     \o Pairs("-e", strs(rin.environment))
     \o (IF override
         THEN <<Str("--entrypoint")>> \o SubSeq(tokens, 1, 1)
         ELSE <<>>)
     \o <<Str("ImageName")>>
     \o (IF override THEN SubSeq(tokens, 2, Len(tokens)) ELSE strs(rin.args))

\* C12: for every step (whose volumes can be resolved) Run runs one command
\* whose arguments are: run --name <container>, -d or --rm, -p per port,
\* -v per volume, -e per environment entry, --entrypoint and the first word
\* of the command override if there is one, the image, then the remaining
\* words of the override, or the declared arguments when there is none;
\* also for an override with no word or a single word.
C12_RunArguments ==
  (rin.op = "run" /\ Returned /\ ~rin.getwdErr) =>
    /\ ret.kind # "panic"
    /\ Len(issued) = 1
    /\ issued[1].args = ClaimedRunArgs

\* C15: the image existence check returns the "not found" error naming the
\* image exactly when the listing succeeds and holds no word, success
\* exactly when it succeeds and holds a word, and the listing's own error
\* when the list command fails.
C15_ImageExistence ==
  (rin.op = "check" /\ Returned) =>
    LET words == \E i \in 1..Len(rin.out) : rin.out[i] \notin Whitespace IN
    /\ ret = ImageNotFound <=> (~rin.listErr /\ ~words)
    /\ ret = Nil <=> (~rin.listErr /\ words)
    /\ ret = ListError <=> rin.listErr
    /\ ImageNotFound.of = <<Str("ImageName")>>

C15_Witness ==
  /\ rin.op = "check" /\ Returned
  /\ ret = ImageNotFound
  /\ rin.out # <<>>

\* ------------------------------------------ environment: the templates ---
Keys == {"K", "L"}

\* a *string: nil, or a pointer to the string val
NilString == [nil |-> TRUE, val |-> ""]

Pointer(v) == [nil |-> FALSE, val |-> v]

\* An argument of a template function is any value; fmt.Sprint renders it.
\* The arguments tried: the strings "K", "L" and "d", and the integer 7.
ArgValues ==
  {[int |-> FALSE, s |-> "K"], [int |-> FALSE, s |-> "L"],
   [int |-> FALSE, s |-> "d"], [int |-> TRUE, s |-> "7"]}

\* environment.go:207, 257  fmt.Sprint(v): a string as it is, an integer in decimal
Sprint(v) == v.s

NoCall == [fn |-> "none", args |-> <<>>, res |-> [kind |-> "none", val |-> ""]]

TemplateIdle ==
  /\ subs = <<>>
  /\ tcall = NoCall

TemplateInit ==
  /\ subs \in UNION {[D -> {NilString, Pointer(""), Pointer("v")}] : D \in SUBSET Keys}
  /\ tcall = NoCall

\* environment.go:175-195  the function registered for key k: {{ k }}
DirectReplacement(k) ==
  IF subs[k].nil THEN [kind |-> "ok", val |-> ""]
  ELSE [kind |-> "ok", val |-> subs[k].val]

\* environment.go:216  return *val, nil: a nil pointer dereference panics
Deref(p) ==
  IF p.nil THEN [kind |-> "panic", val |-> ""]
  ELSE [kind |-> "ok", val |-> p.val]

\* environment.go:198-217  the function registered as Env
EnvFunction(args) ==
  LET parts == [i \in 1..Len(args) |-> Sprint(args[i])] IN
  IF Len(args) < 1 THEN [kind |-> "missing argument", val |-> ""]
  ELSE IF Len(args) > 2 THEN [kind |-> "too many arguments", val |-> ""]
  ELSE IF parts[1] \notin DOMAIN subs
  THEN IF Len(parts) < 2 THEN [kind |-> "undefined argument", val |-> ""]
       ELSE [kind |-> "ok", val |-> parts[2]]
  ELSE Deref(subs[parts[1]])

\* {{ Env args... }} is executed
CallEnv ==
  /\ tcall.fn = "none"
  /\ \E n \in 0..MaxArgs : \E args \in [1..n -> ArgValues] :
       tcall' = [fn |-> "Env", args |-> args, res |-> EnvFunction(args)]
  /\ UNCHANGED subs
  /\ UNCHANGED <<tvars, lvars, evars, rvars, dvars>>

\* {{ k }} is executed for a defined key k
CallDirectReplacement ==
  /\ tcall.fn = "none"
  /\ \E k \in DOMAIN subs :
       tcall' = [fn |-> k, args |-> <<>>, res |-> DirectReplacement(k)]
  /\ UNCHANGED subs
  /\ UNCHANGED <<tvars, lvars, evars, rvars, dvars>>

TemplateNext ==
  \/ CallEnv
  \/ CallDirectReplacement

\* C18: Env called with a defined key, with or without a default, returns
\* normally the string that {{ Key }} returns for that key: the empty
\* string when the key has no explicit value.
C18_EnvLikeDirectReplacement ==
  (/\ tcall.fn = "Env"
   /\ Len(tcall.args) \in {1, 2}
   /\ Sprint(tcall.args[1]) \in DOMAIN subs) =>
    /\ tcall.res.kind = "ok"
    /\ tcall.res.val = DirectReplacement(Sprint(tcall.args[1])).val

\* ------------------------------ environment: the temporary directories ---
\* The argument lists TempDir is called with; the arguments are rendered
\* by Sprint as sequences of characters.
TempDirArgs ==
  {<<>>,
   <<[int |-> FALSE, s |-> <<"a">>]>>,
   <<[int |-> FALSE, s |-> <<"a">>], [int |-> TRUE, s |-> <<"7">>]>>,
   <<[int |-> FALSE, s |-> <<"a", "_", "7">>]>>}

\* the path ioutil.TempDir returns with an error
NoPath == [prefix |-> <<>>, n |-> 0]

TempIdle ==
  /\ tempFiles = <<>>
  /\ tempPaths = <<>>
  /\ created = <<>>
  /\ calls = <<>>
  /\ cleanup = [ret |-> "idle", files |-> <<>>, paths |-> {},
                failedFiles |-> {}, failedPaths |-> {}]

TempInit ==
  /\ \E n \in 0..MaxFiles : tempFiles = [i \in 1..n |-> i]
  /\ tempPaths = <<>>
  /\ created = <<>>
  /\ calls = <<>>
  /\ cleanup = [ret |-> "pending", files |-> <<>>, paths |-> {},
                failedFiles |-> {}, failedPaths |-> {}]

\* environment.go:259  strings.Join(parts, "_")
RECURSIVE stringsJoin(_)
stringsJoin(parts) ==
  IF Len(parts) = 0 THEN <<>>
  ELSE IF Len(parts) = 1 THEN parts[1]
  ELSE parts[1] \o <<"_">> \o stringsJoin(Tail(parts))

FoundNever(paths, prefix) == FALSE

\* environment.go:292-293  val, ok := e.tempPaths[prefix]
Found(paths, prefix) == prefix \in DOMAIN paths

\* environment.go:302  e.tempPaths[prefix] = path
Store(paths, prefix, path) ==
  [x \in DOMAIN paths \cup {prefix} |-> IF x = prefix THEN path ELSE paths[x]]

\* environment.go:299-305  tempDir: ioutil.TempDir makes a directory with a
\* name of its own, or fails; the path is kept when it was made; the error
\* returned is that of os.Chmod, which fails on the empty path.
tempDir(args, prefix) ==
  \E createErr \in BOOLEAN, chmodErr \in BOOLEAN :
    LET path == [prefix |-> prefix, n |-> Len(created) + 1] IN
    IF createErr
    THEN /\ calls' = Append(calls, [args |-> args, path |-> NoPath, err |-> TRUE])
         /\ UNCHANGED <<tempPaths, created>>
    ELSE /\ created' = Append(created, path)
         /\ tempPaths' = Store(tempPaths, prefix, path)
         /\ calls' = Append(calls, [args |-> args, path |-> path, err |-> chmodErr])

\* environment.go:291-297  getOrCreateTempDir
getOrCreateTempDir(args, prefix) ==
  IF Found(tempPaths, prefix)
  THEN /\ calls' = Append(calls, [args |-> args, path |-> tempPaths[prefix], err |-> FALSE])
       /\ UNCHANGED <<tempPaths, created>>
  ELSE tempDir(args, prefix)

\* environment.go:253-261  {{ TempDir args... }} is executed
TempDir ==
  /\ cleanup.ret = "pending"
  /\ Len(calls) < MaxCalls
  /\ \E args \in TempDirArgs :
       getOrCreateTempDir(args, stringsJoin([i \in 1..Len(args) |-> Sprint(args[i])]))
  /\ UNCHANGED <<tempFiles, cleanup>>
  /\ UNCHANGED <<tvars, lvars, evars, rvars, pvars>>

ReturnsError(err) == FALSE

\* environment.go:279-281, 284-286  a removal error is printed to the log
\* and the loop goes on
LogPrint(err) == TRUE

\* environment.go:278-287  one loop of CleanUp over the targets in the
\* order given: the targets a removal was tried on
RECURSIVE RemoveLoop(_, _, _)
RemoveLoop(targets, failing, tried) ==
  IF Len(tried) = Len(targets) THEN tried
  ELSE LET t == targets[Len(tried) + 1] IN
       IF t \in failing /\ ~LogPrint(t) THEN Append(tried, t)
       ELSE RemoveLoop(targets, failing, Append(tried, t))

\* the values of a map
Values(m) == {m[k] : k \in DOMAIN m}

\* the orders in which a range over the map tempPaths can visit it
Orders(paths) ==
  {o \in [1..Cardinality(DOMAIN paths) -> DOMAIN paths] :
     \A i, j \in DOMAIN o : o[i] = o[j] => i = j}

\* environment.go:276-289  CleanUp
CleanUp ==
  /\ cleanup.ret = "pending"
  /\ \E ff \in SUBSET Range(tempFiles), fp \in SUBSET Values(tempPaths),
        o \in Orders(tempPaths) :
       cleanup' =
         [ret |-> "nil",
          files |-> RemoveLoop(tempFiles, ff, <<>>),
          paths |-> Range(RemoveLoop([i \in DOMAIN o |-> tempPaths[o[i]]], fp, <<>>)),
          failedFiles |-> ff, failedPaths |-> fp]
  /\ UNCHANGED <<tempFiles, tempPaths, created, calls>>
  /\ UNCHANGED <<tvars, lvars, evars, rvars, pvars>>

TempNext ==
  \/ TempDir
  \/ CleanUp

\* C13: CleanUp tries the removal of every managed temporary file and of
\* every managed temporary directory, whichever removals fail, and then
\* returns nil.
C13_CleanUpBestEffort ==
  cleanup.ret \notin {"idle", "pending"} =>
    /\ cleanup.ret = "nil"
    /\ cleanup.files = tempFiles
    /\ cleanup.paths = Values(tempPaths)
    /\ Range(created) \subseteq cleanup.paths

\* CleanUp has returned although the removal of a file and of a directory
\* failed, with further directories to remove.
C13_Witness ==
  /\ cleanup.ret = "nil"
  /\ cleanup.failedFiles # {}
  /\ cleanup.failedPaths # {}
  /\ Cardinality(cleanup.paths) >= 2

\* C14: a directory is created at most once for a list of arguments, and
\* every call made with that list after the creation returns the path
\* created, whether or not the creating call returned an error.
C14_SameDirectory ==
  /\ \A i, j \in DOMAIN calls :
       (i < j /\ calls[i].args = calls[j].args /\ calls[i].path # NoPath)
         => calls[j].path = calls[i].path
  /\ \A args \in TempDirArgs :
       Cardinality({k \in DOMAIN created :
                      created[k].prefix = stringsJoin([i \in 1..Len(args) |-> Sprint(args[i])])}) <= 1

\* A call created the directory and returned an error; a later call with
\* the same arguments returned that directory.
C14_Witness ==
  \E i, j \in DOMAIN calls :
    /\ i < j
    /\ calls[i].args = calls[j].args
    /\ calls[i].err
    /\ calls[i].path # NoPath
    /\ calls[j].path = calls[i].path
    /\ ~calls[j].err

\* ------------------------------------------------------ specifications ---
TarjanIdle ==
  /\ graph = <<>>
  /\ nodes = <<>>
  /\ stack = <<>>
  /\ index = <<>>
  /\ output = <<>>
  /\ frames = <<>>
  /\ phase = "idle"
  /\ outcome = Pending
  /\ prev = Pending

LogIdle ==
  /\ typ = [s \in Sinks |-> "stdout"]
  /\ buf = [s \in Sinks |-> <<>>]
  /\ lpc = [s \in Sinks |-> "idle"]
  /\ pending = [s \in Sinks |-> <<>>]
  /\ target = [t \in Streams |-> <<>>]
  /\ written = [s \in Sinks |-> <<>>]

EngineIdle ==
  /\ env = [wharfer |-> FALSE, userErr |-> FALSE, uid |-> "1000",
            gidsErr |-> FALSE, groups |-> <<>>]
  /\ executable = ""

\* the resolver
Init == TarjanInit /\ LogIdle /\ EngineIdle /\ RunnerIdle /\ TemplateIdle /\ TempIdle

Next == TarjanNext

Spec == Init /\ [][Next]_vars

\* the log sinks
InitLog == LogInit /\ TarjanIdle /\ EngineIdle /\ RunnerIdle /\ TemplateIdle /\ TempIdle

SpecLog == InitLog /\ [][LogNext]_vars

\* the container engine selector
InitEngine == EngineInit /\ TarjanIdle /\ LogIdle /\ RunnerIdle /\ TemplateIdle /\ TempIdle

SpecEngine == InitEngine /\ [][EngineNext]_vars

\* the container runner's operations
InitRunner == RunnerInit /\ TarjanIdle /\ LogIdle /\ TemplateIdle /\ TempIdle

SpecRunner == InitRunner /\ [][RunnerNext]_vars

\* the template functions of the environment
InitTemplate ==
  TemplateInit /\ TarjanIdle /\ LogIdle /\ EngineIdle /\ RunnerIdle /\ TempIdle

SpecTemplate == InitTemplate /\ [][TemplateNext]_vars

\* the temporary directories of the environment
InitTemp ==
  TempInit /\ TarjanIdle /\ LogIdle /\ EngineIdle /\ RunnerIdle /\ TemplateIdle

SpecTemp == InitTemp /\ [][TempNext]_vars

=========================================================================
